---- MODULE Spec2Model ----
(***************************************************************************)
(* KernelLinearOperator (linear_operator/operators/kernel_linear_operator) *)
(* as a state machine.  A tensor is a record [shape, data]: shape is the   *)
(* full torch shape, data maps every batch index (0-based coordinates) to  *)
(* the content stored there: for a point set the sequence of its M points, *)
(* for a tensor parameter one value.  Points and parameter values are      *)
(* symbolic identities, so that expansion, permutation and slicing can be  *)
(* followed through to the entries of the kernel matrix.                   *)
(***************************************************************************)
EXTENDS Integers, Sequences, FiniteSets, TLC

VARIABLES inp, op, prev, last, arg, res, steps

vars == <<inp, op, prev, last, arg, res, steps>>

\* ------------------------------------------------------------------ bounds
\* Largest extent of a batch dimension passed to the constructor.
MaxDim == 3
\* Largest number of points in a point set (M, N).
MaxPts == 2
\* Largest number of outputs per input (rows_per_input, cols_per_input).
MaxOut == 2
\* Longest sequence of operations applied to a constructed operator.
MaxSteps == 2

\* ----------------------------------------------------------------- helpers
Max(a, b) == IF a >= b THEN a ELSE b
Min(a, b) == IF a <= b THEN a ELSE b

\* Python's None and a present value, for the optional fields of a slice.
None == <<>>
Some(n) == <<n>>

\* s[-k] of a shape padded on the left with 1s (right-aligned broadcasting).
RDim(s, k) == IF k <= Len(s) THEN s[Len(s) - k + 1] ELSE 1

\* shape[:-2] and shape[-2:]
BatchOf(shape) == SubSeq(shape, 1, Len(shape) - 2)
NonBatchOf(shape) == SubSeq(shape, Len(shape) - 1, Len(shape))

SeqMax(s) == IF Len(s) = 0 THEN 0 ELSE CHOOSE m \in {s[i] : i \in 1..Len(s)} : \A i \in 1..Len(s) : s[i] <= m

\* Every index tuple of a batch shape.
BatchIdx(bs) == {b \in [1..Len(bs) -> 0..(SeqMax(bs) - 1)] : \A i \in 1..Len(bs) : b[i] < bs[i]}

\* One step of torch.broadcast_shapes: fold shape s into the result so far.
BroadcastStep(acc, s) ==
  LET n == Max(Len(acc.shape), Len(s))
      ok == \A k \in 1..n : RDim(s, k) = 1 \/ RDim(s, k) = RDim(acc.shape, k) \/ RDim(acc.shape, k) = 1
  IN [ok |-> acc.ok /\ ok,
      shape |-> [i \in 1..n |-> IF RDim(s, n - i + 1) = 1 THEN RDim(acc.shape, n - i + 1) ELSE RDim(s, n - i + 1)]]

RECURSIVE BroadcastFrom(_, _)
BroadcastFrom(acc, shapes) ==
  IF Len(shapes) = 0 THEN acc ELSE BroadcastFrom(BroadcastStep(acc, Head(shapes)), Tail(shapes))

\* torch.broadcast_shapes(*shapes): [ok, shape]; ok = FALSE is the RuntimeError.
broadcast_shapes(shapes) == BroadcastFrom([ok |-> TRUE, shape |-> <<>>], shapes)

\* Tensor.expand(*bshape, *shape[-2:]) is defined when every existing batch dim
\* is 1 or equals the target's.
CanExpand(t, bshape) ==
  /\ Len(bshape) >= Len(BatchOf(t.shape))
  /\ \A k \in 1..Len(BatchOf(t.shape)) : RDim(BatchOf(t.shape), k) = 1 \/ RDim(BatchOf(t.shape), k) = RDim(bshape, k)

\* expand that leaves the tensor as it is.
expand_skipped(t, bshape) == t

expand(t, bshape) ==
  LET old == BatchOf(t.shape)
      off == Len(bshape) - Len(old)
  IN [shape |-> bshape \o NonBatchOf(t.shape),
      data |-> [b \in BatchIdx(bshape) |-> t.data[[i \in 1..Len(old) |-> IF old[i] = 1 THEN 0 ELSE b[i + off]]]]]

\* ------------------------------------------------------------- constructor
ParamBatchShapes(tensor_params) == [k \in 1..Len(tensor_params) |-> BatchOf(tensor_params[k].shape)]
ParamNonBatchShapes(tensor_params) == [k \in 1..Len(tensor_params) |-> NonBatchOf(tensor_params[k].shape)]

\* The no-data shape with the feature dimension dropped as well.
NoDataShape_nofeature(shape) == BatchOf(shape) \o <<1, 1>>

\* The shape of a point set with its count dimension replaced by 1.
NoDataShape(shape) == BatchOf(shape) \o <<1, shape[Len(shape)]>>

\* int -> (int, int)
ExpandNumOutputs(n) == IF Len(n) = 1 THEN <<n[1], n[1]>> ELSE n

\* KernelLinearOperator.__init__: [ok |-> TRUE, op |-> the instance] or
\* [ok |-> FALSE, error |-> which RuntimeError].
KernelLinearOperator(x1, x2, covar_func, num_outputs_per_input, tensor_params, nontensor_params) ==
  LET bc == broadcast_shapes(<<BatchOf(x1.shape), BatchOf(x2.shape)>> \o ParamBatchShapes(tensor_params))
      batch_broadcast_shape == bc.shape
  IN IF ~bc.ok
     THEN IF ~broadcast_shapes(<<NoDataShape(x1.shape), NoDataShape(x2.shape)>>).ok
          THEN [ok |-> FALSE, error |-> "Incompatible data shapes"]
          ELSE [ok |-> FALSE, error |-> "Shape of kernel parameters is incompatible"]
     ELSE [ok |-> TRUE,
           op |-> [x1 |-> expand(x1, batch_broadcast_shape),
                   x2 |-> expand(x2, batch_broadcast_shape),
                   tensor_params |-> [k \in 1..Len(tensor_params) |-> expand(tensor_params[k], batch_broadcast_shape)],
                   nontensor_params |-> nontensor_params,
                   covar_func |-> covar_func,
                   num_outputs_per_input |-> ExpandNumOutputs(num_outputs_per_input),
                   batch_broadcast_shape |-> batch_broadcast_shape,
                   param_batch_shapes |-> [k \in 1..Len(tensor_params) |-> batch_broadcast_shape],
                   param_nonbatch_shapes |-> ParamNonBatchShapes(tensor_params)]]

\* _size with the row multiplicity used for the columns too.
Size_rowsonly(self) ==
  self.batch_broadcast_shape
    \o <<self.x1.shape[Len(self.x1.shape) - 1] * self.num_outputs_per_input[1],
         self.x2.shape[Len(self.x2.shape) - 1] * self.num_outputs_per_input[1]>>

\* KernelLinearOperator._size
Size(self) ==
  self.batch_broadcast_shape
    \o <<self.x1.shape[Len(self.x1.shape) - 1] * self.num_outputs_per_input[1],
         self.x2.shape[Len(self.x2.shape) - 1] * self.num_outputs_per_input[2]>>

\* ------------------------------------------------------------------ inputs
\* Batch shapes of rank <= r with extents 1..d.
BShapes(r, d) == UNION {[1..k -> 1..d] : k \in 0..r}

\* A point set of m points in dimension dd, one fresh point per batch entry and row.
PointSet(tag, bshape, m, dd) ==
  [shape |-> bshape \o <<m, dd>>,
   data |-> [b \in BatchIdx(bshape) |-> [i \in 1..m |-> <<tag, b, i - 1>>]]]

\* A tensor parameter of shape bshape + nb, one fresh value per batch entry.
ParamTensor(k, bshape, nb) ==
  [shape |-> bshape \o nb, data |-> [b \in BatchIdx(bshape) |-> <<"theta", k, b>>]]

\* The two kinds of covariance function: one returning a torch.Tensor, one
\* returning a LinearOperator.
CovarFuncs == {"tensor_kernel", "lazy_kernel"}

NoOp == [none |-> TRUE]
NoRes == [kind |-> "none"]
NoArg == [none |-> TRUE]

\* Sequences of at most n tensor parameters, the k-th drawn from batch shapes
\* bss and trailing shapes nbs.
RECURSIVE ParamSeqs(_, _, _)
ParamSeqs(n, bss, nbs) ==
  IF n = 0 THEN {<<>>}
  ELSE LET shorter == ParamSeqs(n - 1, bss, nbs)
       IN shorter \cup {Append(ps, ParamTensor(Len(ps) + 1, pb, nb)) :
                          ps \in {q \in shorter : Len(q) = n - 1}, pb \in bss, nb \in nbs}

\* num_outputs_per_input as passed: an int k (written <<k>>) or a pair.
NumOutputsArgs == {<<k>> : k \in 1..MaxOut} \cup {<<r, c>> : r \in 1..MaxOut, c \in 1..MaxOut}

FeatureDims == {2, 3}

MkInput(b1, b2, m, n, d1, d2, cf, no, ps) ==
  [x1 |-> PointSet("x1", b1, m, d1), x2 |-> PointSet("x2", b2, n, d2),
   covar_func |-> cf, num_outputs_per_input |-> no,
   tensor_params |-> ps, nontensor_params |-> <<"opaque">>]

\* Batch shapes of the constructor's arguments: every shape of rank <= 1 and
\* two of rank 2, so that left-padding and both outcomes of broadcasting occur.
CtorBatchShapes == BShapes(1, MaxDim) \cup {<<2, 1>>, <<MaxDim, 2>>}

\* Every constructor call within the bounds, compatible or not.
CtorInputs ==
  {MkInput(b1, b2, m, n, 2, d2, "tensor_kernel", no, ps) :
     b1 \in CtorBatchShapes, b2 \in CtorBatchShapes,
     m \in 1..MaxPts, n \in 1..MaxPts, d2 \in FeatureDims,
     no \in NumOutputsArgs,
     ps \in ParamSeqs(1, BShapes(1, MaxDim), {<<1, 1>>, <<1, 2>>})}

Construct(i) == KernelLinearOperator(i.x1, i.x2, i.covar_func, i.num_outputs_per_input, i.tensor_params, i.nontensor_params)

\* ------------------------------------------------------- tensor operations
Rank(t) == Len(BatchOf(t.shape))

\* Tensor.permute(*dims, -2, -1): result dim j is source dim dims[j] (0-based).
permute(t, dims) ==
  LET old == BatchOf(t.shape)
      new == [j \in 1..Len(old) |-> old[dims[j] + 1]]
  IN [shape |-> new \o NonBatchOf(t.shape),
      data |-> [b \in BatchIdx(new) |->
                  t.data[[i \in 1..Len(old) |-> b[CHOOSE j \in 1..Len(old) : dims[j] + 1 = i]]]]]

\* Tensor.unsqueeze(dim) for a batch position dim (0-based).
unsqueeze(t, dim) ==
  LET old == BatchOf(t.shape)
      new == SubSeq(old, 1, dim) \o <<1>> \o SubSeq(old, dim + 1, Len(old))
  IN [shape |-> new \o NonBatchOf(t.shape),
      data |-> [b \in BatchIdx(new) |-> t.data[SubSeq(b, 1, dim) \o SubSeq(b, dim + 2, Len(b))]]]

\* ----------------------------------------------------------------- indices
Slice(start, stop, step) == [kind |-> "slice", start |-> start, stop |-> stop, step |-> step]
IntIndex(i) == [kind |-> "int", i |-> i]
TensorIndex(idx) == [kind |-> "tensor", idx |-> idx]

\* _noop_index = slice(None, None, None)
noop_index == Slice(None, None, None)

\* The positions a slice selects in a dimension of extent n (bounds >= 0 are
\* clamped to n, as Python does).
Indices(sl, n) ==
  LET start == IF sl.start = None THEN 0 ELSE Min(sl.start[1], n)
      stop == IF sl.stop = None THEN n ELSE Min(sl.stop[1], n)
      step == IF sl.step = None THEN 1 ELSE sl.step[1]
      cnt == IF stop > start THEN (stop - start + step - 1) \div step ELSE 0
  IN [k \in 1..cnt |-> start + (k - 1) * step]

\* The positions a row or column index selects: a slice or an index tensor.
Selected(index, n) == IF index.kind = "slice" THEN Indices(index, n) ELSE index.idx

\* Basic indexing of the batch dimensions bs by one index per dimension: an int
\* drops its dimension, a slice keeps it.
IndexedBatchShape(bs, bis) ==
  LET sp == SelectSeq([i \in 1..Len(bs) |-> i], LAMBDA i : bis[i].kind = "slice")
  IN [k \in 1..Len(sp) |-> Len(Indices(bis[sp[k]], bs[sp[k]]))]

SourceIdx(bs, bis, b) ==
  [i \in 1..Len(bs) |->
     IF bis[i].kind = "int" THEN bis[i].i
     ELSE Indices(bis[i], bs[i])[b[Cardinality({j \in 1..i : bis[j].kind = "slice"})] + 1]]

\* t[(*bis, :, :)] for Len(bis) = the batch rank of t.
IndexBatch(t, bis) ==
  LET bs == BatchOf(t.shape)
      new == IndexedBatchShape(bs, bis)
  IN [shape |-> new \o NonBatchOf(t.shape),
      data |-> [b \in BatchIdx(new) |-> t.data[SourceIdx(bs, bis, b)]]]

\* x[..., index, :] on a point set: keeps the selected points, in order.
IndexRows(x, index) ==
  LET n == Len(x.shape)
      sel == Selected(index, x.shape[n - 1])
  IN [shape |-> BatchOf(x.shape) \o <<Len(sel), x.shape[n]>>,
      data |-> [b \in DOMAIN x.data |-> [k \in 1..Len(sel) |-> x.data[b][sel[k] + 1]]]]

\* x[(*bis, index, _noop_index)]: IndexError (ok = FALSE) when there are more
\* indices than dimensions.
IndexPoints(x, bis, index) ==
  IF Len(bis) > Rank(x) THEN [ok |-> FALSE]
  ELSE [ok |-> TRUE, t |-> IndexRows(IndexBatch(x, bis), index)]

\* ------------------------------------------------------ covariance function
\* covar_func(x1, x2, **params) on one batch entry.  The function is supplied
\* by the caller; it returns (#x1 * r) x (#x2 * c) entries, the r x c block of
\* a pair of points being contiguous, each entry determined by the two points,
\* the position in the block and the parameter values.
CovarBlock(x1rows, x2rows, pvals, no) ==
  [i \in 1..(Len(x1rows) * no[1]) |->
     [j \in 1..(Len(x2rows) * no[2]) |->
        <<x1rows[((i - 1) \div no[1]) + 1], (i - 1) % no[1],
          x2rows[((j - 1) \div no[2]) + 1], (j - 1) % no[2], pvals>>]]

\* KernelLinearOperator.covar_mat: the dense materialization.
covar_mat(self) ==
  LET ps == self.tensor_params
  IN [shape |-> BatchOf(self.x1.shape)
                  \o <<self.x1.shape[Len(self.x1.shape) - 1] * self.num_outputs_per_input[1],
                       self.x2.shape[Len(self.x2.shape) - 1] * self.num_outputs_per_input[2]>>,
      data |-> [b \in BatchIdx(BatchOf(self.x1.shape)) |->
                  CovarBlock(self.x1.data[b], self.x2.data[b],
                             [k \in 1..Len(ps) |-> ps[k].data[b]], self.num_outputs_per_input)]]

\* dense[(*bis, row_index, col_index)] for Len(bis) = the batch rank.
DenseIndex(d, bis, row_index, col_index) ==
  LET n == Len(d.shape)
      bs == BatchOf(d.shape)
      new == IndexedBatchShape(bs, bis)
      rsel == Selected(row_index, d.shape[n - 1])
      csel == Selected(col_index, d.shape[n])
  IN [shape |-> new \o <<Len(rsel), Len(csel)>>,
      data |-> [b \in BatchIdx(new) |->
                  [i \in 1..Len(rsel) |-> [j \in 1..Len(csel) |->
                     d.data[SourceIdx(bs, bis, b)][rsel[i] + 1][csel[j] + 1]]]]]

\* ------------------------------------------------------------- operations
\* The instance a constructor call returns, or the error it raises, as the
\* result of an operation.
Built(r, evaluated) ==
  IF r.ok THEN [kind |-> "op", op |-> r.op, evaluated |-> evaluated]
  ELSE [kind |-> "error", error |-> "RuntimeError", evaluated |-> evaluated]

\* _transpose_nonbatch passing x2 for both point sets.
_transpose_nonbatch_x2x2(self) ==
  KernelLinearOperator(self.x2, self.x2, self.covar_func, self.num_outputs_per_input,
                       self.tensor_params, self.nontensor_params)

\* KernelLinearOperator._transpose_nonbatch
_transpose_nonbatch(self) ==
  KernelLinearOperator(self.x2, self.x1, self.covar_func, self.num_outputs_per_input,
                       self.tensor_params, self.nontensor_params)

\* KernelLinearOperator._permute_batch
_permute_batch(self, dims) ==
  KernelLinearOperator(permute(self.x1, dims), permute(self.x2, dims), self.covar_func,
                       self.num_outputs_per_input,
                       [k \in 1..Len(self.tensor_params) |-> permute(self.tensor_params[k], dims)],
                       self.nontensor_params)

\* KernelLinearOperator._unsqueeze_batch
_unsqueeze_batch(self, dim) ==
  KernelLinearOperator(unsqueeze(self.x1, dim), unsqueeze(self.x2, dim), self.covar_func,
                       self.num_outputs_per_input,
                       [k \in 1..Len(self.tensor_params) |-> unsqueeze(self.tensor_params[k], dim)],
                       self.nontensor_params)

\* self.covar_mat._getitem(row_index, col_index, *batch_indices) inside
\* try/except Exception -> TypeError.  A torch.Tensor has no _getitem; a lazy
\* value indexes its entries and fails when given more indices than dimensions.
DenseFallback(self, row_index, col_index, bis) ==
  IF self.covar_func = "tensor_kernel" \/ Len(bis) > Len(self.batch_broadcast_shape)
  THEN [kind |-> "error", error |-> "TypeError", evaluated |-> TRUE]
  ELSE [kind |-> "dense", value |-> DenseIndex(covar_mat(self), bis, row_index, col_index), evaluated |-> TRUE]

\* The except IndexError branch for x1 and x2: batch_indices is a tuple; any
\* non-slice entry raises RuntimeError, otherwise the point set is expanded to
\* Len(bis) batch dims of extent 1 and indexed with fallback_index.
ExpandAndIndex(x, bis, fallback_index) ==
  LET ones == [i \in 1..Len(bis) |-> 1]
  IN IF \E i \in 1..Len(bis) : bis[i].kind # "slice" THEN [ok |-> FALSE]
     ELSE IF ~CanExpand(x, ones) THEN [ok |-> FALSE]
     ELSE [ok |-> TRUE, t |-> IndexRows(IndexBatch(expand(x, ones), bis), fallback_index)]

\* Lines 260-309 of _getitem: index x1, x2 and the parameters, then construct.
SliceInputs(self, row_index, col_index, bis) ==
  LET d1 == IndexPoints(self.x1, bis, row_index)
      x1 == IF d1.ok THEN d1 ELSE ExpandAndIndex(self.x1, bis, row_index)
      d2 == IndexPoints(self.x2, bis, col_index)
      x2 == IF d2.ok THEN d2 ELSE ExpandAndIndex(self.x2, bis, row_index)
  IN IF ~x1.ok \/ ~x2.ok THEN [kind |-> "error", error |-> "RuntimeError", evaluated |-> FALSE]
     ELSE IF \E k \in 1..Len(self.tensor_params) : Len(bis) > Rank(self.tensor_params[k])
     THEN [kind |-> "error", error |-> "IndexError", evaluated |-> FALSE]
     ELSE Built(KernelLinearOperator(x1.t, x2.t, self.covar_func, self.num_outputs_per_input,
                                     [k \in 1..Len(self.tensor_params) |-> IndexBatch(self.tensor_params[k], bis)],
                                     self.nontensor_params), FALSE)

\* _getitem without the pre-processing of multi-output indices.
_getitem_unblocked(self, row_index, col_index, bis) == SliceInputs(self, row_index, col_index, bis)

\* KernelLinearOperator._getitem
_getitem(self, row_index, col_index, bis) ==
  LET num_outs_per_in_rows == self.num_outputs_per_input[1]
      num_outs_per_in_cols == self.num_outputs_per_input[2]
      size == Size(self)
      num_rows == size[Len(size) - 1]
      num_cols == size[Len(size)]
  IN IF num_outs_per_in_rows # 1 \/ num_outs_per_in_cols # 1
     THEN IF row_index.kind # "slice" \/ col_index.kind # "slice"
          THEN DenseFallback(self, row_index, col_index, bis)
          ELSE LET row_start == IF row_index.start # None THEN row_index.start[1] ELSE 0
                   row_end == IF row_index.stop # None THEN row_index.stop[1] ELSE num_rows
                   row_step == IF row_index.step # None THEN row_index.step ELSE Some(1)
                   col_start == IF col_index.start # None THEN col_index.start[1] ELSE 0
                   col_end == IF col_index.stop # None THEN col_index.stop[1] ELSE num_cols
                   col_step == IF col_index.step # None THEN col_index.step ELSE Some(1)
               IN IF row_step # None \/ col_step # None
                  THEN DenseFallback(self, row_index, col_index, bis)
                  ELSE IF \/ row_start % num_outs_per_in_rows # 0
                          \/ col_start % num_outs_per_in_cols # 0
                          \/ row_end % num_outs_per_in_rows # 0
                          \/ col_end % num_outs_per_in_cols # 0
                  THEN DenseFallback(self, row_index, col_index, bis)
                  ELSE SliceInputs(self,
                                   Slice(Some(row_start \div num_outs_per_in_rows), Some(row_end \div num_outs_per_in_rows), None),
                                   Slice(Some(col_start \div num_outs_per_in_cols), Some(col_end \div num_outs_per_in_cols), None),
                                   bis)
     ELSE SliceInputs(self, row_index, col_index, bis)

\* KernelLinearOperator._get_indices for one concrete (batch, row, column)
\* position: bis is the batch coordinates, row_index and col_index are ints.
_get_indices(self, row_index, col_index, bis) ==
  IF row_index >= self.x1.shape[Len(self.x1.shape) - 1] \/ col_index >= self.x2.shape[Len(self.x2.shape) - 1]
  THEN [kind |-> "error", error |-> "IndexError", evaluated |-> FALSE]
  ELSE LET x1_ == <<self.x1.data[bis][row_index + 1]>>
           x2_ == <<self.x2.data[bis][col_index + 1]>>
           tensor_params_ == [k \in 1..Len(self.tensor_params) |-> self.tensor_params[k].data[bis]]
           indices_mat == CovarBlock(x1_, x2_, tensor_params_, self.num_outputs_per_input)
       IN IF <<Len(indices_mat), Len(indices_mat[1])>> # <<1, 1>>
          THEN [kind |-> "error", error |-> "AssertionError", evaluated |-> TRUE]
          ELSE [kind |-> "scalar", value |-> indices_mat[1][1], evaluated |-> TRUE]

\* ----------------------------------------------------------------- actions
InitCtor ==
  /\ inp \in CtorInputs
  /\ op = NoOp /\ prev = NoOp
  /\ last = "none"
  /\ arg = NoArg /\ res = NoRes /\ steps = 0

\* KernelLinearOperator(x1, x2, covar_func, num_outputs_per_input, **params)
DoConstruct ==
  /\ last = "none"
  /\ LET r == Construct(inp)
     IN /\ op' = IF r.ok THEN r.op ELSE NoOp
        /\ res' = IF r.ok THEN [kind |-> "op"] ELSE [kind |-> "error", error |-> r.error]
  /\ last' = "construct"
  /\ UNCHANGED <<inp, prev, arg, steps>>

NextCtor == DoConstruct

SpecCtor == InitCtor /\ [][NextCtor]_vars

\* ------------------------------------------------- operations on an instance
\* Valid constructor calls whose instance the operations below start from.
\* <<x1 batch shape, x2 batch shape, tensor-parameter batch shapes>>: no batch
\* and no parameter; no batch and one parameter; x1 and the parameter
\* broadcast to x2's batch; x2 broadcast to the batch of x1 and the parameter.
ShapeConfigs ==
  {<<<<>>, <<>>, <<>>>>,
   <<<<>>, <<>>, <<<<>>>>>>,
   <<<<>>, <<2>>, <<<<>>>>>>,
   <<<<2>>, <<>>, <<<<2>>>>>>}

OpsInputs(cfs) ==
  {MkInput(sc[1], sc[2], m, n, 2, 2, cf, <<r, c>>, [k \in 1..Len(sc[3]) |-> ParamTensor(k, sc[3][k], <<1, 2>>)]) :
     sc \in ShapeConfigs,
     m \in 1..MaxPts, n \in 1..MaxPts, cf \in cfs,
     r \in 1..MaxOut, c \in 1..MaxOut}

InitFrom(inputs) ==
  /\ inp \in inputs
  /\ Construct(inp).ok
  /\ op = Construct(inp).op
  /\ prev = NoOp
  /\ last = "construct"
  /\ arg = NoArg /\ res = [kind |-> "op"] /\ steps = 0

\* The bookkeeping every operation shares: the instance it was called on
\* becomes prev, a returned instance becomes op.
Record(name, a, r) ==
  /\ op' = IF r.kind = "op" THEN r.op ELSE op
  /\ prev' = op
  /\ last' = name
  /\ arg' = a /\ res' = r
  /\ steps' = steps + 1
  /\ UNCHANGED inp

Transpose ==
  /\ op # NoOp /\ steps < MaxSteps
  /\ Record("transpose", NoArg, Built(_transpose_nonbatch(op), FALSE))

Perms(k) == {d \in [1..k -> 0..(k - 1)] : \A i, j \in 1..k : i # j => d[i] # d[j]}

PermuteBatch ==
  /\ op # NoOp /\ steps < MaxSteps
  /\ \E dims \in Perms(Len(op.batch_broadcast_shape)) :
       Record("permute", [dims |-> dims], Built(_permute_batch(op, dims), FALSE))

UnsqueezeBatch ==
  /\ op # NoOp /\ steps < MaxSteps
  /\ \E dim \in 0..Len(op.batch_broadcast_shape) :
       Record("unsqueeze", [dim |-> dim], Built(_unsqueeze_batch(op, dim), FALSE))

\* Slices [a:b] with 0 <= a < b <= n.
Ranges(n) == {Slice(Some(p[1]), Some(p[2]), None) : p \in {q \in (0..n) \X (0..n) : q[1] < q[2]}}

\* Slices [0:b] and [a:n] of an axis of extent n.
EndRanges(n) == {sl \in Ranges(n) : sl.start = Some(0) \/ sl.stop = Some(n)}

\* The full range with an explicit step.
Stepped(n) == {Slice(Some(0), Some(n), Some(1)), Slice(Some(0), Some(n), Some(2))}

\* Row and column indices of an axis of extent n.
RowIndices(n) == {noop_index} \cup Ranges(n) \cup Stepped(n) \cup {TensorIndex(<<0>>)}
ColIndices(n) == {noop_index} \cup EndRanges(n) \cup Stepped(n)

\* One index per batch dimension: an int, the full slice or a range.
RECURSIVE BatchIndices(_)
BatchIndices(bs) ==
  IF Len(bs) = 0 THEN {<<>>}
  ELSE {<<h>> \o t : h \in {IntIndex(i) : i \in 0..(Head(bs) - 1)} \cup {noop_index} \cup Ranges(Head(bs)),
                     t \in BatchIndices(Tail(bs))}

\* The same with one more leading index than there are batch dimensions.
ExtraBatchIndices(bs) ==
  {<<h>> \o [i \in 1..Len(bs) |-> noop_index] : h \in {noop_index, Slice(Some(0), Some(1), None), IntIndex(0)}}

\* Full slices on every batch dimension, or an int on the first of them.
PlainBatchIndices(bs) ==
  {[i \in 1..Len(bs) |-> IF i = k THEN IntIndex(0) ELSE noop_index] : k \in 0..Min(1, Len(bs))}

GetitemWith(rows, cols, batches) ==
  /\ op # NoOp
  /\ \E row_index \in rows, col_index \in cols, bis \in batches :
       Record("getitem", [row_index |-> row_index, col_index |-> col_index, batch_indices |-> bis],
              _getitem(op, row_index, col_index, bis))

NumRows(self) == Size(self)[Len(Size(self)) - 1]
NumCols(self) == Size(self)[Len(Size(self))]

\* op[*batch_indices, row_index, col_index] -> _getitem
Getitem ==
  /\ steps < 1
  /\ GetitemWith(RowIndices(NumRows(op)), ColIndices(NumCols(op)),
                 BatchIndices(op.batch_broadcast_shape) \cup ExtraBatchIndices(op.batch_broadcast_shape))

\* The same within a sequence of operations, on fewer indices.
GetitemNext ==
  /\ steps < MaxSteps
  /\ GetitemWith({noop_index, Slice(Some(0), Some(1), None)},
                 {noop_index, Slice(Some(1), Some(NumCols(op)), None)},
                 PlainBatchIndices(op.batch_broadcast_shape))

\* op[b, i, j] for concrete b, i, j inside the size -> _get_indices
GetIndices ==
  /\ op # NoOp /\ steps < 1
  /\ \E bis \in BatchIdx(op.batch_broadcast_shape), row_index \in 0..(NumRows(op) - 1), col_index \in 0..(NumCols(op) - 1) :
       Record("get_indices", [row_index |-> row_index, col_index |-> col_index, batch_indices |-> bis],
              _get_indices(op, row_index, col_index, bis))

NextOps == Transpose \/ PermuteBatch \/ UnsqueezeBatch \/ GetitemNext

InitOps == InitFrom(OpsInputs({"lazy_kernel"}))

SpecOps == InitOps /\ [][NextOps]_vars

NextIndex == Getitem \/ GetIndices

InitIndex == InitFrom(OpsInputs(CovarFuncs))

SpecIndex == InitIndex /\ [][NextIndex]_vars

\* ------------------------------------------------------------------ claims
\* Right-aligned broadcast compatibility of two shapes, and of a family.
Compatible(s, t) ==
  \A k \in 1..Max(Len(s), Len(t)) : RDim(s, k) = RDim(t, k) \/ RDim(s, k) = 1 \/ RDim(t, k) = 1
MutuallyCompatible(shapes) == \A i, j \in 1..Len(shapes) : Compatible(shapes[i], shapes[j])

\* The common shape of a compatible family: the longest rank, the largest
\* extent at every right-aligned position.
CommonShape(shapes) ==
  LET n == SeqMax([i \in 1..Len(shapes) |-> Len(shapes[i])])
  IN [i \in 1..n |-> SeqMax([j \in 1..Len(shapes) |-> RDim(shapes[j], n - i + 1)])]

\* The batch shapes passed to the constructor.
InputBatchShapes ==
  <<BatchOf(inp.x1.shape), BatchOf(inp.x2.shape)>>
    \o [k \in 1..Len(inp.tensor_params) |-> BatchOf(inp.tensor_params[k].shape)]

InputM == inp.x1.shape[Len(inp.x1.shape) - 1]
InputN == inp.x2.shape[Len(inp.x2.shape) - 1]
InputR == inp.num_outputs_per_input[1]
InputC == inp.num_outputs_per_input[Len(inp.num_outputs_per_input)]

\* C1: for broadcast-compatible batch shapes construction succeeds and size()
\* is the common batch shape followed by (M * r, N * c), an int multiplicity k
\* meaning (k, k).
C1_SizeIsBatchPlusBlocks ==
  (last = "construct" /\ MutuallyCompatible(InputBatchShapes))
    => /\ res.kind = "op"
       /\ Size(op) = CommonShape(InputBatchShapes) \o <<InputM * InputR, InputN * InputC>>

\* C1 witness: a constructed operator whose batch shape had to be broadcast
\* from three different shapes, with M # N and unequal multiplicities.
C1_Witness ==
  /\ last = "construct" /\ res.kind = "op"
  /\ Len(inp.tensor_params) = 1
  /\ Cardinality({InputBatchShapes[i] : i \in 1..3}) = 3
  /\ InputM # InputN /\ InputR # InputC

\* C5: incompatible batch shapes make construction raise and create no
\* operator; the error is the data-shape one exactly when the two point-set
\* shapes with the count dimension replaced by 1 do not broadcast.
C5_ShapeErrors ==
  (last = "construct" /\ ~MutuallyCompatible(InputBatchShapes))
    => /\ res.kind = "error" /\ op = NoOp
       /\ res.error \in {"Incompatible data shapes", "Shape of kernel parameters is incompatible"}
       /\ (res.error = "Incompatible data shapes")
            <=> ~Compatible([inp.x1.shape EXCEPT ![Len(inp.x1.shape) - 1] = 1],
                            [inp.x2.shape EXCEPT ![Len(inp.x2.shape) - 1] = 1])

\* C5 witness: the point sets' batch shapes broadcast, a parameter's does
\* not, and the feature dimensions differ: the data-shape error is raised.
C5_Witness ==
  /\ last = "construct" /\ res.kind = "error"
  /\ Compatible(BatchOf(inp.x1.shape), BatchOf(inp.x2.shape))
  /\ res.error = "Incompatible data shapes"

\* C2: transpose swaps the point sets and reverses the multiplicity pair, so
\* the size is batch + (N * c, M * r); covariance function and non-tensor
\* parameters are kept.
C2_TransposeReversesOutputs ==
  last = "transpose"
    => /\ res.kind = "op"
       /\ op.x1 = prev.x2 /\ op.x2 = prev.x1
       /\ op.num_outputs_per_input = <<prev.num_outputs_per_input[2], prev.num_outputs_per_input[1]>>
       /\ Size(op) = prev.batch_broadcast_shape \o <<NumCols(prev), NumRows(prev)>>
       /\ op.covar_func = prev.covar_func /\ op.nontensor_params = prev.nontensor_params

\* C6: transposing twice gives back the operator: same point sets,
\* multiplicity, parameters and size, hence the same dense values.
C6_DoubleTranspose ==
  [][(last = "transpose" /\ last' = "transpose")
       => /\ op' = prev
          /\ Size(op') = Size(prev)
          /\ covar_mat(op') = covar_mat(prev)]_vars

\* C6 witness: two transposes of an operator with M # N, unequal
\* multiplicities and a tensor parameter lead back to the constructed one.
C6_Witness ==
  /\ last = "transpose" /\ steps = 2
  /\ op = Construct(inp).op
  /\ InputM # InputN /\ InputR # InputC /\ Len(inp.tensor_params) = 1

\* C7: in every operator, the point sets and every tensor parameter have
\* the operator's common batch shape as their batch shape, and every tensor
\* parameter keeps the trailing two dims it was given.
C7_CommonBatchShape ==
  op # NoOp
    => /\ BatchOf(op.x1.shape) = op.batch_broadcast_shape
       /\ BatchOf(op.x2.shape) = op.batch_broadcast_shape
       /\ DOMAIN op.x1.data = BatchIdx(op.batch_broadcast_shape)
       /\ DOMAIN op.x2.data = BatchIdx(op.batch_broadcast_shape)
       /\ Len(op.tensor_params) = Len(inp.tensor_params)
       /\ \A k \in 1..Len(op.tensor_params) :
            /\ BatchOf(op.tensor_params[k].shape) = op.batch_broadcast_shape
            /\ DOMAIN op.tensor_params[k].data = BatchIdx(op.batch_broadcast_shape)
            /\ NonBatchOf(op.tensor_params[k].shape) = NonBatchOf(inp.tensor_params[k].shape)

\* C7 witness: an operator obtained by slicing after another operation, from
\* inputs whose three batch shapes were not all equal.
C7_Witness ==
  /\ last = "getitem" /\ res.kind = "op" /\ steps = 2
  /\ Len(op.tensor_params) = 1
  /\ Cardinality({InputBatchShapes[i] : i \in 1..3}) > 1
  /\ Len(op.batch_broadcast_shape) > 0

\* The last operation was a slice extraction; its operator and its indices.
MultiOutput(self) == self.num_outputs_per_input[1] # 1 \/ self.num_outputs_per_input[2] # 1
SliceCall == last = "getitem" /\ arg.row_index.kind = "slice" /\ arg.col_index.kind = "slice"
FullBatchIndex == Len(arg.batch_indices) = Len(prev.batch_broadcast_shape)
StartOf(index) == IF index.start = None THEN 0 ELSE index.start[1]
EndOf(index, n) == IF index.stop = None THEN n ELSE index.stop[1]
Unstepped(index) == index.step = None \/ index.step = Some(1)
BoundsDivisible ==
  /\ StartOf(arg.row_index) % prev.num_outputs_per_input[1] = 0
  /\ EndOf(arg.row_index, NumRows(prev)) % prev.num_outputs_per_input[1] = 0
  /\ StartOf(arg.col_index) % prev.num_outputs_per_input[2] = 0
  /\ EndOf(arg.col_index, NumCols(prev)) % prev.num_outputs_per_input[2] = 0

\* The values of a result, and the dense materialization indexed the same way.
ResultValues == IF res.kind = "op" THEN covar_mat(res.op) ELSE res.value
DenseSliced == DenseIndex(covar_mat(prev), arg.batch_indices, arg.row_index, arg.col_index)

\* C3: on a multi-output operator, step-1 ranges with bounds divisible by the
\* multiplicities slice without error and give the values of the dense
\* materialization sliced with the same bounds, for either kind of
\* covariance function.
C3_AlignedSliceSucceeds ==
  (SliceCall /\ MultiOutput(prev) /\ FullBatchIndex
     /\ Unstepped(arg.row_index) /\ Unstepped(arg.col_index) /\ BoundsDivisible)
    => /\ res.kind \in {"op", "dense"}
       /\ ResultValues = DenseSliced

\* C4: on a multi-output operator, a range with a bound not divisible by the
\* multiplicity either raises or gives exactly the dense materialization's
\* values; it never returns a kernel operator over re-sliced point sets.
C4_MisalignedNeverSilent ==
  (SliceCall /\ MultiOutput(prev) /\ ~BoundsDivisible)
    => \/ res.kind = "error"
       \/ /\ res.kind = "dense"
          /\ FullBatchIndex
          /\ ResultValues = DenseSliced

\* C4 witness: a misaligned unstepped row range on a multi-output operator
\* answered from the dense materialization.
C4_Witness ==
  /\ SliceCall /\ MultiOutput(prev) /\ ~BoundsDivisible
  /\ Unstepped(arg.row_index) /\ Unstepped(arg.col_index)
  /\ StartOf(arg.row_index) % prev.num_outputs_per_input[1] # 0
  /\ res.kind = "dense"

\* C8: on a multi-output operator, unstepped ranges with divisible bounds
\* take the exact-translation path: a new kernel operator over the point
\* sets re-sliced by the divided bounds, with no covariance evaluation.
C8_AlignedSliceStaysLazy ==
  (SliceCall /\ MultiOutput(prev) /\ FullBatchIndex
     /\ Unstepped(arg.row_index) /\ Unstepped(arg.col_index) /\ BoundsDivisible)
    => /\ res.kind = "op"
       /\ ~res.evaluated
       /\ res.op.x1 = expand(IndexRows(IndexBatch(prev.x1, arg.batch_indices),
                                       Slice(Some(StartOf(arg.row_index) \div prev.num_outputs_per_input[1]),
                                             Some(EndOf(arg.row_index, NumRows(prev)) \div prev.num_outputs_per_input[1]), None)),
                             res.op.batch_broadcast_shape)
       /\ res.op.x2 = expand(IndexRows(IndexBatch(prev.x2, arg.batch_indices),
                                       Slice(Some(StartOf(arg.col_index) \div prev.num_outputs_per_input[2]),
                                             Some(EndOf(arg.col_index, NumCols(prev)) \div prev.num_outputs_per_input[2]), None)),
                             res.op.batch_broadcast_shape)

\* The points sel selects from rows, in order.
Pick(rows, sel) == [k \in 1..Len(sel) |-> rows[sel[k] + 1]]

\* C9: a unit-multiplicity slice extraction, the batch-rank fallback
\* included, returns an operator whose row set is the row set sliced by the
\* row index and whose column set is the column set sliced by the column
\* index, so its last two sizes are the lengths of the two ranges.
C9_ColumnsSlicedByColumnIndex ==
  (SliceCall /\ ~MultiOutput(prev) /\ res.kind = "op")
    => LET rsel == Indices(arg.row_index, NumRows(prev))
           csel == Indices(arg.col_index, NumCols(prev))
       IN /\ NumRows(res.op) = Len(rsel)
          /\ NumCols(res.op) = Len(csel)
          /\ \A b \in DOMAIN res.op.x1.data : \E b0 \in DOMAIN prev.x1.data :
               res.op.x1.data[b] = Pick(prev.x1.data[b0], rsel)
          /\ \A b \in DOMAIN res.op.x2.data : \E b0 \in DOMAIN prev.x2.data :
               res.op.x2.data[b] = Pick(prev.x2.data[b0], csel)

\* C10: element lookup at any position inside the size returns the scalar
\* the dense materialization holds there, for every multiplicity.
C10_LookupMatchesDense ==
  last = "get_indices"
    => /\ res.kind = "scalar"
       /\ res.value = covar_mat(prev).data[arg.batch_indices][arg.row_index + 1][arg.col_index + 1]

====
